---- MODULE Spec2Model ----
(***************************************************************************)
(* Model of the fetch-all operations of LastFMHandler (src/LastFMHandler.ts) *)
(* against an upstream that holds `total` tracks and serves them in pages.   *)
(*                                                                           *)
(* A list of tracks is kept run-length encoded: a sequence of runs           *)
(* [lo |-> a, hi |-> b] standing for the tracks a, a+1, ..., b of the        *)
(* upstream listing (track k is the k-th item of that listing).  The         *)
(* encoding is lossless: Length, At, Push, Slice and Canon below are the     *)
(* array operations on the encoded list.                                     *)
(*                                                                           *)
(* One action is one synchronous stretch of an async function: from its call *)
(* or from the settling of the promise it awaits, up to its next await, its  *)
(* return or its throw.                                                      *)
(***************************************************************************)
EXTENDS Integers, Sequences, FiniteSets, TLC

\* ------------------------------------------------------------------ constants
API_MAX_LIMIT == 1000
CHUNK_SIZE == 5000

baseOptions == [limit |-> 1000, page |-> 1]

\* --------------------------------------------------------------------- bounds
\* largest number of full pages a caller limit or the upstream total spans
MaxPages == 7
\* number of requests the upstream answers with a failure in one behaviour
MaxFaults == 1
\* number of iterations of the while loop of getUserLovedTracks that are followed
MaxLoop == 3

\* number of top-level calls one caller makes in a row
MaxCalls == 2
\* number of references to the handler the callers obtain from getInstance
MaxRefs == 3

LimitOffsets == {0, 1, 200, 500}
TotalOffsets == {0, 500}
\* caller limits: -1, 0, 1, 200, 500, 1000, 1001, 1200, 1500, 2000, ...
Limits == {-1} \cup {p * API_MAX_LIMIT + d : p \in 0..(MaxPages - 1), d \in LimitOffsets}
\* upstream totals: 0, 500, 1000, 1500, ...
Totals == {p * API_MAX_LIMIT + d : p \in 0..MaxPages, d \in TotalOffsets}

\* the limits and totals of the callers that call more than once
RepeatLimits == {API_MAX_LIMIT + 200, CHUNK_SIZE + API_MAX_LIMIT + 200}
RepeatTotals == {API_MAX_LIMIT + 500, CHUNK_SIZE + API_MAX_LIMIT + 500}

PagedOps == {"getUserRecentTracks", "getAllUserRecentTracks", "getUserTopTracks"}
Ops == PagedOps \cup {"getUserLovedTracks"}
Outcomes == {"ok", "invalid", "error"}

\* ------------------------------------------------------------ track sequences
Min(a, b) == IF a <= b THEN a ELSE b
Max(a, b) == IF a >= b THEN a ELSE b

\* Math.ceil(a / b) for b > 0
Ceil(a, b) == (a + b - 1) \div b

Run(a, b) == IF a > b THEN <<>> ELSE <<[lo |-> a, hi |-> b]>>

RECURSIVE Length(_)
Length(t) ==
  IF t = <<>> THEN 0 ELSE (Head(t).hi - Head(t).lo + 1) + Length(Tail(t))

RECURSIVE At(_, _)
\* t[k - 1] of the array, for 1 <= k <= Length(t)
At(t, k) ==
  LET h == Head(t)
      n == h.hi - h.lo + 1
  IN IF k <= n THEN h.lo + k - 1 ELSE At(Tail(t), k - n)

\* array.push(...items)
Push(t, items) == t \o items

RECURSIVE Slice(_, _)
\* array.slice(0, n) for n >= 0
Slice(t, n) ==
  IF n <= 0 \/ t = <<>> THEN <<>>
  ELSE LET h == Head(t)
           len == h.hi - h.lo + 1
       IN IF len <= n THEN <<h>> \o Slice(Tail(t), n - len)
          ELSE <<[lo |-> h.lo, hi |-> h.lo + n - 1]>>

RECURSIVE Canon(_)
\* the canonical encoding of a list: maximal runs of consecutive tracks
Canon(t) ==
  IF Len(t) <= 1 THEN t
  ELSE IF t[2].lo = t[1].hi + 1
       THEN Canon(<<[lo |-> t[1].lo, hi |-> t[2].hi]>> \o SubSeq(t, 3, Len(t)))
       ELSE <<t[1]>> \o Canon(Tail(t))

\* ------------------------------------------------------------------- upstream
\* items per page the service serves for a requested per-page limit n
PerPage(n) == Min(n, API_MAX_LIMIT)

\* the response body for page p with per-page limit n when T tracks exist
PageResponse(p, n, T) ==
  [track |-> Run((p - 1) * PerPage(n) + 1, Min(p * PerPage(n), T)),
   attr  |-> [total |-> T, totalPages |-> Ceil(T, PerPage(n)),
              page |-> p, perPage |-> PerPage(n)]]

\* ---------------------------------------------------------------- the handler
\* the per-request limit left uncapped
getGoodPassedLimit_uncapped(has, l) ==
  LET goodPassedLimit == IF has /\ l # 0 THEN l ELSE API_MAX_LIMIT
  IN [goodPassedLimit |-> goodPassedLimit, finalLimit |-> goodPassedLimit]

\* limit || API_MAX_LIMIT, capped
getGoodPassedLimit(has, l) ==
  LET goodPassedLimit == IF has /\ l # 0 THEN l ELSE API_MAX_LIMIT
  IN [goodPassedLimit |-> goodPassedLimit,
      finalLimit |-> IF goodPassedLimit > API_MAX_LIMIT THEN API_MAX_LIMIT
                     ELSE goodPassedLimit]

\* finalLimit of getUserLovedTracks
LovedFinalLimit(has, l) ==
  IF has /\ l # 0
  THEN (IF l <= baseOptions.limit THEN l ELSE baseOptions.limit)
  ELSE baseOptions.limit

\* limit ?? this.baseOptions.limit
LovedFirstLimit(has, l) == IF has THEN l ELSE baseOptions.limit

\* a limit schema without its minimum
OptionsValid_any(l) == TRUE

\* limit: z.coerce.number().min(1).optional()
OptionsValid(l) == l >= 1

neededTracks(has, l) ==
  getGoodPassedLimit(has, l).goodPassedLimit - getGoodPassedLimit(has, l).finalLimit

\* the number of chunks rounded down
chunks_floor(needed) == needed \div CHUNK_SIZE

chunks(needed) == Ceil(needed, CHUNK_SIZE)

\* the number of calls of a chunk rounded down
numberOfApiCallWithinChunk_floor(needed, ci) ==
  (IF needed - ci * CHUNK_SIZE > CHUNK_SIZE THEN CHUNK_SIZE
   ELSE needed - ci * CHUNK_SIZE) \div API_MAX_LIMIT

\* the calls of a chunk counted over all the tracks still needed
numberOfApiCallWithinChunk_uncapped(needed, ci) ==
  Ceil(needed - ci * CHUNK_SIZE, API_MAX_LIMIT)

numberOfApiCallWithinChunk(needed, ci) ==
  Ceil(IF needed - ci * CHUNK_SIZE > CHUNK_SIZE THEN CHUNK_SIZE
       ELSE needed - ci * CHUNK_SIZE, API_MAX_LIMIT)

\* the page offset without the page already fetched
pageOf_offByOne(ci, j) == (ci * CHUNK_SIZE) \div API_MAX_LIMIT + (j + 1)

\* CHUNK_SIZE is a multiple of API_MAX_LIMIT, so the quotient is exact
pageOf(ci, j) == (ci * CHUNK_SIZE) \div API_MAX_LIMIT + (j + 2)

\* the method-specific filters of the service
FilterNames == {"from", "to", "extended", "period"}

\* the filters the options object of operation o accepts
acceptedFilters(o) ==
  IF o = "getUserTopTracks" THEN {"period"}
  ELSE IF o \in {"getUserRecentTracks", "getAllUserRecentTracks"}
  THEN {"from", "to", "extended"}
  ELSE {}

\* the filters operation o puts into the options of its first request, of the
\* filters f it was called with
firstFilters(o, f) ==
  IF o = "getUserRecentTracks" THEN f \cap {"from", "to", "extended"}
  ELSE IF o = "getAllUserRecentTracks" THEN f \cap {"extended"}
  ELSE IF o = "getUserTopTracks" THEN f \cap {"period"}
  ELSE {}

\* { ...this.baseOptions, limit: API_MAX_LIMIT, page }: the options of a chunk
\* request hold no filter
chunkFilters(o, f) == {}

Request(p, l, f) == [page |-> p, limit |-> l, filters |-> f, status |-> "pending"]

\* Array.from({ length: numberOfApiCallWithinChunk }, (_, j) => this.fetch(...))
chunkRequests(needed, ci, o, f) ==
  [k \in 1..numberOfApiCallWithinChunk(needed, ci) |->
     Request(pageOf(ci, k - 1), API_MAX_LIMIT, chunkFilters(o, f))]

VARIABLES total, op, hasLimit, limit, pc, requests, awaiting, tracks, i,
          totalPages, currentPage, result, faults

\* nowplaying: the "@attr".nowplaying marker of the most recent track, once read
\* order:      the requests of the call in the order their responses arrived
\*             (a history variable, recorded when tracing is set)
VARIABLES nowplaying, order, tracing

\* the caller: the fetch-all calls that returned so far, with their parameters
\* and results, the number of calls that are over, and the method-specific
\* filters the caller passes with its calls
VARIABLES history, calls, passed

\* the locals of a second call made on the same handler, while the event loop
\* runs the first one (and the locals of the first one while it runs the second)
VARIABLE other

\* the singleton classes: the class in use, the heap of handler objects, the
\* static instance field (0: not set), the references callers hold, the
\* argument of the latest setUsername call, and one fetchData call
VARIABLES cls, objects, instance, refs, lastSet, http, promise, opOutcome

callerVars == <<history, calls, tracing, passed, other>>
handlerVars == <<cls, objects, instance, refs, lastSet, http, promise, opOutcome>>

vars == <<total, op, hasLimit, limit, pc, requests, awaiting, tracks, i,
          totalPages, currentPage, result, faults, nowplaying, order,
          callerVars, handlerVars>>

\* Promise.all over the awaited requests (a single await is the one-element case)
PromiseAll(reqs, aw) ==
  IF \E k \in DOMAIN aw : reqs[aw[k]].status = "error" THEN "rejected"
  ELSE IF \E k \in DOMAIN aw : reqs[aw[k]].status = "pending" THEN "pending"
  ELSE "fulfilled"

\* response bodies accepted without validation
SchemaParse_unchecked(reqs, aw) == TRUE

\* schema.parse / z.array(schema).parse of the awaited response bodies
SchemaParse(reqs, aw) == \A k \in DOMAIN aw : reqs[aw[k]].status = "ok"

\* the awaited requests in the order their responses arrived
Arrived(aw) == SelectSeq(order, LAMBDA k : \E j \in DOMAIN aw : aw[j] = k)

RECURSIVE flatMapTracks_asArrived(_, _, _)
\* the pages merged in the order their responses arrived
flatMapTracks_asArrived(reqs, aw, T) ==
  LET ar == IF Len(Arrived(aw)) = Len(aw) THEN Arrived(aw) ELSE aw
  IN IF aw = <<>> THEN <<>>
     ELSE PageResponse(reqs[Head(ar)].page, reqs[Head(ar)].limit, T).track
          \o flatMapTracks_asArrived(reqs, [j \in 1..(Len(ar) - 1) |-> ar[j + 1]], T)

\* newTracks.flatMap((t) => t.recenttracks.track), in the order of the array
RECURSIVE flatMapTracks(_, _, _)
flatMapTracks(reqs, aw, T) ==
  IF aw = <<>> THEN <<>>
  ELSE PageResponse(reqs[Head(aw)].page, reqs[Head(aw)].limit, T).track
       \o flatMapTracks(reqs, Tail(aw), T)

\* the locals of a call of the handler: its arguments, its position and the
\* bindings of its function body
Locals ==
  [op |-> op, hasLimit |-> hasLimit, limit |-> limit, pc |-> pc,
   requests |-> requests, awaiting |-> awaiting, tracks |-> tracks, i |-> i,
   totalPages |-> totalPages, currentPage |-> currentPage, result |-> result,
   nowplaying |-> nowplaying]

\* the locals of a call that is not made yet
IdleLocals ==
  [op |-> "none", hasLimit |-> FALSE, limit |-> 0, pc |-> "idle",
   requests |-> <<>>, awaiting |-> <<>>, tracks |-> <<>>, i |-> 0,
   totalPages |-> 0, currentPage |-> 0, result |-> <<>>, nowplaying |-> "unread"]

\* the markers a recent track can carry: none, or nowplaying "true" / "false"
Markers == {"absent", "true", "false"}

\* the singleton classes of the repository
Classes == {"part_000", "LasfFM_handler.ts", "LasfFM_handler.js", "LastFMHandler.ts"}

\* no handler constructed yet and no fetchData call made, in class c
HandlerIdle(c) ==
  /\ cls = c
  /\ objects = <<>>
  /\ instance = 0
  /\ refs = <<>>
  /\ lastSet = "none"
  /\ http = [state |-> "none"]
  /\ promise = [state |-> "none"]
  /\ opOutcome = [state |-> "none"]

Init ==
  /\ total \in Totals
  /\ op = "none"
  /\ hasLimit = FALSE
  /\ limit = 0
  /\ pc = "idle"
  /\ requests = <<>>
  /\ awaiting = <<>>
  /\ tracks = <<>>
  /\ i = 0
  /\ totalPages = 0
  /\ currentPage = 0
  /\ result = <<>>
  /\ faults = 0
  /\ nowplaying = "unread"
  /\ order = <<>>
  /\ tracing = FALSE
  /\ history = {}
  /\ calls = 0
  /\ passed = {}
  /\ other = IdleLocals
  /\ HandlerIdle("LastFMHandler.ts")

\* getUserRecentTracks({ limit }) up to its first await: the options are parsed
\* (a limit below 1 throws) and page 1 is requested with finalLimit
getUserRecentTracks(has, l) ==
  /\ pc = "idle"
  /\ op' = "getUserRecentTracks"
  /\ hasLimit' = has
  /\ limit' = IF has THEN l ELSE 0
  /\ IF OptionsValid(getGoodPassedLimit(has, l).finalLimit)
     THEN /\ requests' = <<Request(baseOptions.page,
                                   getGoodPassedLimit(has, l).finalLimit,
                                   firstFilters("getUserRecentTracks", passed))>>
          /\ awaiting' = <<1>>
          /\ pc' = "first"
     ELSE /\ pc' = "failed"
          /\ UNCHANGED <<requests, awaiting>>
  /\ UNCHANGED <<total, tracks, i, totalPages, currentPage, result, faults>>
  /\ UNCHANGED <<nowplaying, order, callerVars, handlerVars>>

\* getAllUserRecentTracks({ limit }) up to its first await
getAllUserRecentTracks(has, l) ==
  /\ pc = "idle"
  /\ op' = "getAllUserRecentTracks"
  /\ hasLimit' = has
  /\ limit' = IF has THEN l ELSE 0
  /\ IF OptionsValid(getGoodPassedLimit(has, l).finalLimit)
     THEN /\ requests' = <<Request(baseOptions.page,
                                   getGoodPassedLimit(has, l).finalLimit,
                                   firstFilters("getAllUserRecentTracks", passed))>>
          /\ awaiting' = <<1>>
          /\ pc' = "first"
     ELSE /\ pc' = "failed"
          /\ UNCHANGED <<requests, awaiting>>
  /\ UNCHANGED <<total, tracks, i, totalPages, currentPage, result, faults>>
  /\ UNCHANGED <<nowplaying, order, callerVars, handlerVars>>

\* getUserTopTracks({ limit }) up to its first await
getUserTopTracks(has, l) ==
  /\ pc = "idle"
  /\ op' = "getUserTopTracks"
  /\ hasLimit' = has
  /\ limit' = IF has THEN l ELSE 0
  /\ IF OptionsValid(getGoodPassedLimit(has, l).finalLimit)
     THEN /\ requests' = <<Request(baseOptions.page,
                                   getGoodPassedLimit(has, l).finalLimit,
                                   firstFilters("getUserTopTracks", passed))>>
          /\ awaiting' = <<1>>
          /\ pc' = "first"
     ELSE /\ pc' = "failed"
          /\ UNCHANGED <<requests, awaiting>>
  /\ UNCHANGED <<total, tracks, i, totalPages, currentPage, result, faults>>
  /\ UNCHANGED <<nowplaying, order, callerVars, handlerVars>>

\* getUserLovedTracks(limit) up to its first await: page 1 is requested with
\* limit ?? baseOptions.limit, which fetch() rejects when it is below 1
getUserLovedTracks(has, l) ==
  /\ pc = "idle"
  /\ op' = "getUserLovedTracks"
  /\ hasLimit' = has
  /\ limit' = IF has THEN l ELSE 0
  /\ IF OptionsValid(LovedFirstLimit(has, l))
     THEN /\ requests' = <<Request(baseOptions.page, LovedFirstLimit(has, l), {})>>
          /\ awaiting' = <<1>>
          /\ pc' = "lovedFirst"
     ELSE /\ pc' = "failed"
          /\ UNCHANGED <<requests, awaiting>>
  /\ UNCHANGED <<total, tracks, i, totalPages, currentPage, result, faults>>
  /\ UNCHANGED <<nowplaying, order, callerVars, handlerVars>>

\* the call is suspended at an await whose promise has not settled yet
Suspended ==
  pc \in {"first", "batch", "lovedFirst", "lovedNext", "playing"}
    => PromiseAll(requests, awaiting) = "pending"

\* the upstream answers one request in flight; the continuation of a settled
\* await runs as a microtask, before the next response is delivered
Respond(k, outcome) ==
  /\ k \in DOMAIN requests
  /\ requests[k].status = "pending"
  /\ Suspended
  /\ outcome # "ok" => faults < MaxFaults
  /\ requests' = [requests EXCEPT ![k].status = outcome]
  /\ faults' = IF outcome = "ok" THEN faults ELSE faults + 1
  /\ order' = IF tracing THEN Append(order, k) ELSE order
  /\ UNCHANGED <<total, op, hasLimit, limit, pc, awaiting, tracks, i,
                 totalPages, currentPage, result>>
  /\ UNCHANGED <<nowplaying, callerVars, handlerVars>>

\* an awaited fetch rejected, or a response body failed its schema
Throw ==
  /\ pc \in {"first", "batch", "lovedFirst", "lovedNext", "playing"}
  /\ \/ PromiseAll(requests, awaiting) = "rejected"
     \/ PromiseAll(requests, awaiting) = "fulfilled" /\ ~SchemaParse(requests, awaiting)
  /\ pc' = "failed"
  /\ awaiting' = <<>>
  /\ UNCHANGED <<total, op, hasLimit, limit, requests, tracks, i,
                 totalPages, currentPage, result, faults>>
  /\ UNCHANGED <<nowplaying, order, callerVars, handlerVars>>

\* a batch awaited by its first request only
Settled_first ==
  /\ awaiting # <<>>
  /\ requests[awaiting[1]].status = "ok"

\* the awaited promise is fulfilled and its value passes the schema
Settled ==
  /\ PromiseAll(requests, awaiting) = "fulfilled"
  /\ SchemaParse(requests, awaiting)

\* after the tracks of chunk ci - 1 (or of the first page) are merged into t
PagedContinue(t, ci) ==
  LET gl == getGoodPassedLimit(hasLimit, limit)
      needed == neededTracks(hasLimit, limit)
  IN IF gl.finalLimit < gl.goodPassedLimit /\ ci < chunks(needed)
     THEN /\ requests' = requests \o chunkRequests(needed, ci, op, passed)
          /\ awaiting' = [k \in 1..numberOfApiCallWithinChunk(needed, ci) |->
                            Len(requests) + k]
          /\ i' = ci
          /\ tracks' = t
          /\ pc' = "batch"
          /\ UNCHANGED result
     ELSE /\ result' = Slice(t, gl.goodPassedLimit)
          /\ tracks' = t
          /\ pc' = "done"
          /\ awaiting' = <<>>
          /\ UNCHANGED <<requests, i>>

\* the first page of a paged operation arrived
PagedFirst ==
  /\ pc = "first"
  /\ Settled
  /\ PagedContinue(flatMapTracks(requests, awaiting, total), 0)
  /\ UNCHANGED <<total, op, hasLimit, limit, totalPages, currentPage, faults>>
  /\ UNCHANGED <<nowplaying, order, callerVars, handlerVars>>

\* the batch of chunk i arrived
PagedBatch ==
  /\ pc = "batch"
  /\ Settled
  /\ PagedContinue(Push(tracks, flatMapTracks(requests, awaiting, total)), i + 1)
  /\ UNCHANGED <<total, op, hasLimit, limit, totalPages, currentPage, faults>>
  /\ UNCHANGED <<nowplaying, order, callerVars, handlerVars>>

\* the condition of the while loop of getUserLovedTracks
lovedLoopCondition(cur, pages, t) ==
  /\ cur < pages
  /\ (IF hasLimit /\ limit # 0 THEN Length(t) < limit ELSE TRUE)

\* the while loop of getUserLovedTracks, entered with the merged tracks t
LovedLoop(cur, pages, t) ==
  IF lovedLoopCondition(cur, pages, t)
  THEN /\ Len(requests) <= MaxLoop
       /\ requests' = Append(requests,
                             Request(cur + 1, LovedFinalLimit(hasLimit, limit), {}))
       /\ awaiting' = <<Len(requests) + 1>>
       /\ tracks' = t
       /\ pc' = "lovedNext"
       /\ UNCHANGED result
  ELSE /\ result' = t
       /\ tracks' = t
       /\ pc' = "done"
       /\ awaiting' = <<>>
       /\ UNCHANGED requests

LovedFirst ==
  /\ pc = "lovedFirst"
  /\ Settled
  /\ LET r == PageResponse(requests[1].page, requests[1].limit, total)
     IN /\ totalPages' = r.attr.totalPages
        /\ currentPage' = r.attr.page
        /\ LovedLoop(r.attr.page, r.attr.totalPages, r.track)
  /\ UNCHANGED <<total, op, hasLimit, limit, i, faults>>
  /\ UNCHANGED <<nowplaying, order, callerVars, handlerVars>>

LovedNext ==
  /\ pc = "lovedNext"
  /\ Settled
  /\ LovedLoop(currentPage, totalPages,
               Push(tracks, flatMapTracks(requests, awaiting, total)))
  /\ UNCHANGED <<total, op, hasLimit, limit, i, totalPages, currentPage, faults>>
  /\ UNCHANGED <<nowplaying, order, callerVars, handlerVars>>

\* getCurrentlyPlayingTrack() up to its await: page 1 is requested with limit 1
getCurrentlyPlayingTrack ==
  /\ pc = "idle"
  /\ op' = "getCurrentlyPlayingTrack"
  /\ hasLimit' = FALSE
  /\ limit' = 0
  /\ requests' = <<Request(baseOptions.page, 1, {})>>
  /\ awaiting' = <<1>>
  /\ pc' = "playing"
  /\ UNCHANGED <<total, tracks, i, totalPages, currentPage, result, faults>>
  /\ UNCHANGED <<nowplaying, order, callerVars, handlerVars>>

\* track[0]["@attr"]?.nowplaying ? track[0] : null, with null encoded as <<>>;
\* reading "@attr" of track[0] throws a TypeError when the track list is empty
CurrentlyPlaying ==
  /\ pc = "playing"
  /\ Settled
  /\ LET track == PageResponse(requests[1].page, requests[1].limit, total).track
     IN IF track = <<>>
        THEN /\ pc' = "failed"
             /\ UNCHANGED <<nowplaying, result, tracks>>
        ELSE \E marker \in Markers :
               /\ nowplaying' = marker
               /\ tracks' = track
               /\ result' = IF marker = "true" THEN Slice(track, 1) ELSE <<>>
               /\ pc' = "done"
  /\ awaiting' = <<>>
  /\ UNCHANGED <<total, op, hasLimit, limit, requests, i, totalPages, currentPage, faults>>
  /\ UNCHANGED <<order, callerVars, handlerVars>>

Next ==
  \/ getCurrentlyPlayingTrack
  \/ CurrentlyPlaying
  \/ \E has \in BOOLEAN : \E l \in (IF has THEN Limits ELSE {0}) :
       getUserRecentTracks(has, l)
  \/ \E has \in BOOLEAN : \E l \in (IF has THEN Limits ELSE {0}) :
       getAllUserRecentTracks(has, l)
  \/ \E has \in BOOLEAN : \E l \in (IF has THEN Limits ELSE {0}) :
       getUserTopTracks(has, l)
  \/ \E has \in BOOLEAN : \E l \in (IF has THEN Limits ELSE {0}) :
       getUserLovedTracks(has, l)
  \/ \E k \in DOMAIN requests : \E outcome \in Outcomes :
       Respond(k, outcome)
  \/ Throw
  \/ PagedFirst
  \/ PagedBatch
  \/ LovedFirst
  \/ LovedNext

Spec == Init /\ [][Next]_vars

\* ------------------------------------------------------- a caller calling again
\* the caller's await of the call settles: a returned sequence is kept with the
\* parameters of its call, and the locals of the call are gone
CallerResumes ==
  /\ pc \in {"done", "failed"}
  /\ history' = IF pc = "done"
                THEN history \cup {[op |-> op, hasLimit |-> hasLimit,
                                    limit |-> limit, result |-> result]}
                ELSE history
  /\ calls' = calls + 1
  /\ op' = "none"
  /\ hasLimit' = FALSE
  /\ limit' = 0
  /\ pc' = "idle"
  /\ requests' = <<>>
  /\ awaiting' = <<>>
  /\ tracks' = <<>>
  /\ i' = 0
  /\ totalPages' = 0
  /\ currentPage' = 0
  /\ result' = <<>>
  /\ nowplaying' = "unread"
  /\ order' = <<>>
  /\ UNCHANGED <<total, faults, tracing, passed, other, handlerVars>>

InitRepeat ==
  /\ total \in RepeatTotals
  /\ op = "none"
  /\ hasLimit = FALSE
  /\ limit = 0
  /\ pc = "idle"
  /\ requests = <<>>
  /\ awaiting = <<>>
  /\ tracks = <<>>
  /\ i = 0
  /\ totalPages = 0
  /\ currentPage = 0
  /\ result = <<>>
  /\ faults = 0
  /\ nowplaying = "unread"
  /\ order = <<>>
  /\ tracing = TRUE
  /\ history = {}
  /\ calls = 0
  /\ passed = {}
  /\ other = IdleLocals
  /\ HandlerIdle("LastFMHandler.ts")

NextRepeat ==
  \/ \E has \in BOOLEAN : \E l \in (IF has THEN RepeatLimits ELSE {0}) :
       calls < MaxCalls /\ getUserRecentTracks(has, l)
  \/ \E has \in BOOLEAN : \E l \in (IF has THEN RepeatLimits ELSE {0}) :
       calls < MaxCalls /\ getAllUserRecentTracks(has, l)
  \/ \E has \in BOOLEAN : \E l \in (IF has THEN RepeatLimits ELSE {0}) :
       calls < MaxCalls /\ getUserTopTracks(has, l)
  \/ \E has \in BOOLEAN : \E l \in (IF has THEN RepeatLimits ELSE {0}) :
       calls < MaxCalls /\ getUserLovedTracks(has, l)
  \/ \E k \in DOMAIN requests : \E outcome \in Outcomes :
       Respond(k, outcome)
  \/ Throw
  \/ PagedFirst
  \/ PagedBatch
  \/ LovedFirst
  \/ LovedNext
  \/ CallerResumes

SpecRepeat == InitRepeat /\ [][NextRepeat]_vars

TypeOK ==
  /\ total \in Totals
  /\ op \in Ops \cup {"none", "getCurrentlyPlayingTrack"}
  /\ pc \in {"idle", "first", "batch", "lovedFirst", "lovedNext", "playing",
            "done", "failed"}
  /\ nowplaying \in Markers \cup {"unread"}
  /\ faults \in 0..MaxFaults

\* ------------------------------------------------------- the singleton classes
\* JavaScript values: undefined, numbers and strings
Undefined == <<"undefined">>
Num(n) == <<"number", n>>
Str(x) == <<"string", x>>

\* getInstance() called without an argument
NoArg == "<undefined>"
\* the arguments getInstance and setUsername are called with
Usernames == {"", "tom_planche", "test1"}

\* a JavaScript string in a condition
Truthy(u) == u \notin {NoArg, ""}

\* the values of LASTFM_ERROR_CODES: 2..18 and 20..27
KnownCodes == (2..18) \cup (20..27)

\* Object.keys(LASTFM_ERROR_CODES).find((key) => CODES[key] === Number(v))
ErrorName(v) ==
  IF v[1] = "number" /\ v[2] \in KnownCodes THEN <<"key", v[2]>> ELSE Undefined

\* a response body: an error payload { error, message } or the data asked for
NoPayload == [isError |-> FALSE, error |-> 0, message |-> ""]
Payloads == {[isError |-> TRUE, error |-> 6, message |-> "User not found"],
             [isError |-> TRUE, error |-> 29, message |-> "Rate Limit Exceeded"]}
Bodies == Payloads \cup {NoPayload}

\* body.error and body.message
ErrorField(body) == IF body.isError THEN Num(body.error) ELSE Undefined
MessageField(body) == IF body.isError THEN Str(body.message) ELSE Undefined

\* the ways the request of axios.get(url) ends: a 2xx response, or an error
\* with its code and, when the service answered, its response
HttpOutcomes ==
  {[state |-> "success", code |-> "", hasResponse |-> TRUE, data |-> b, handled |-> FALSE] :
     b \in Bodies}
  \cup {[state |-> "failed", code |-> "ERR_BAD_REQUEST", hasResponse |-> TRUE,
         data |-> b, handled |-> FALSE] : b \in Bodies}
  \cup {[state |-> "failed", code |-> c, hasResponse |-> FALSE,
         data |-> NoPayload, handled |-> FALSE] : c \in {"ERR_NETWORK", "ECONNABORTED"}}

\* a thrown or rejected value
ErrorValue(kind, error, code, message, body) ==
  [kind |-> kind, error |-> error, code |-> code, message |-> message, data |-> body]

\* new LastFM_handler(username) in class c
construct(c, u) ==
  [username |-> IF c \in {"part_000", "LasfFM_handler.ts"}
                THEN (IF Truthy(u) THEN u ELSE "LASTFM_USERNAME")
                ELSE IF c = "LastFMHandler.ts" THEN u ELSE NoArg,
   baseURL |-> IF c = "part_000" THEN "https://ws.audioscrobbler.com/2.0/"
               ELSE IF c = "LastFMHandler.ts" THEN NoArg
               ELSE "http://ws.audioscrobbler.com/2.0/",
   endURL |-> IF c = "part_000" THEN "&apIkey=KEY&format=json"
              ELSE IF c = "LastFMHandler.ts" THEN NoArg
              ELSE "&api_key=KEY&format=json"]

\* a second handler on every call
needsInstance_always(inst) == TRUE

\* if (!LastFM_handler.instance)
needsInstance(inst) == inst = 0

\* an assignment that is lost
assignUsername_lost(o, u) == o

\* this.username = username
assignUsername(o, u) == [o EXCEPT !.username = u]

\* this.username
getUsername(r) == objects[r].username

callVars == <<total, op, hasLimit, limit, pc, requests, awaiting, tracks, i,
              totalPages, currentPage, result, faults, nowplaying, order>>

\* LastFM_handler.getInstance(u): the instance is constructed when there is
\* none (part_000: with username ?? "RJ", and a truthy u is set on the instance
\* on every call); the caller keeps the reference returned
getInstance(u) ==
  /\ Len(refs) < MaxRefs
  /\ LET arg == IF cls = "part_000" /\ u = NoArg THEN "RJ" ELSE u
         objs == IF needsInstance(instance) THEN Append(objects, construct(cls, arg))
                 ELSE objects
         inst == IF needsInstance(instance) THEN Len(objs) ELSE instance
         sets == cls = "part_000" /\ Truthy(u)
     IN /\ objects' = IF sets THEN [objs EXCEPT ![inst] = assignUsername(objs[inst], u)]
                      ELSE objs
        /\ lastSet' = IF sets THEN u ELSE lastSet
        /\ instance' = inst
        /\ refs' = Append(refs, inst)
  /\ UNCHANGED <<cls, http, promise, opOutcome, callVars, callerVars>>

\* handler.setUsername(u) through the k-th reference obtained
setUsername(k, u) ==
  /\ k \in DOMAIN refs
  /\ cls \in {"part_000", "LasfFM_handler.ts"}
  /\ objects' = [objects EXCEPT ![refs[k]] = assignUsername(objects[refs[k]], u)]
  /\ lastSet' = u
  /\ UNCHANGED <<cls, instance, refs, http, promise, opOutcome, callVars, callerVars>>

\* fetchData(method, params) up to axios.get(url): the promise it returns is
\* pending (LastFMHandler.ts: fetch up to its await)
fetchData ==
  /\ instance # 0
  /\ cls # "LasfFM_handler.js"
  /\ http.state = "none"
  /\ http' = [state |-> "inflight"]
  /\ promise' = [state |-> "pending"]
  /\ UNCHANGED <<cls, objects, instance, refs, lastSet, opOutcome, callVars, callerVars>>

\* the request ends
HttpCompletes(h) ==
  /\ http.state = "inflight"
  /\ http' = h
  /\ UNCHANGED <<cls, objects, instance, refs, lastSet, promise, opOutcome,
                 callVars, callerVars>>

\* .then((response) => resolve(response.data))
axiosThen ==
  /\ http.state = "success"
  /\ ~http.handled
  /\ http' = [http EXCEPT !.handled = TRUE]
  /\ promise' = [state |-> "resolved", value |-> http.data]
  /\ UNCHANGED <<cls, objects, instance, refs, lastSet, opOutcome, callVars, callerVars>>

\* what the .catch((error) => ...) callback of fetchData does to the promise
\* returned by fetchData; reading error.response.data of an error without a
\* response throws inside the callback, and neither resolve nor reject is called
catchCallback(c, h, username) ==
  IF c = "LastFMHandler.ts"
  THEN [state |-> "rejected",
        value |-> ErrorValue("AxiosError", Undefined, Str(h.code), <<>>, h.data)]
  ELSE IF c = "part_000" /\ h.code = "ERR_NETWORK"
  THEN [state |-> "rejected",
        value |-> ErrorValue("object", Num(0), Undefined, <<Str("Network error.")>>,
                             NoPayload)]
  ELSE IF ~h.hasResponse
  THEN [state |-> "pending"]
  ELSE IF c = "part_000"
  THEN (IF ErrorName(ErrorField(h.data)) # Undefined
        THEN [state |-> "rejected",
              value |-> ErrorValue("object", ErrorField(h.data), Undefined,
                                   <<ErrorName(ErrorField(h.data)), ErrorField(h.data),
                                     MessageField(h.data)>>, NoPayload)]
        ELSE [state |-> "rejected",
              value |-> ErrorValue("object", Num(-1), Undefined,
                                   <<Str("Unknown error: "), ErrorField(h.data),
                                     MessageField(h.data)>>, NoPayload)])
  ELSE IF MessageField(h.data) = Str("User not found")
  THEN [state |-> "rejected",
        value |-> ErrorValue("UsernameNotFoundError", Undefined, Undefined,
                             <<Str("Username '"), Str(username), Str("' not found.")>>,
                             NoPayload)]
  ELSE [state |-> "rejected",
        value |-> ErrorValue("AxiosError", Undefined, Str(h.code), <<>>, h.data)]

\* the request failed and the catch callback runs
axiosCatch ==
  /\ http.state = "failed"
  /\ ~http.handled
  /\ http' = [http EXCEPT !.handled = TRUE]
  /\ promise' = catchCallback(cls, http, getUsername(instance))
  /\ UNCHANGED <<cls, objects, instance, refs, lastSet, opOutcome, callVars, callerVars>>

\* castResponse(response) on a body with an "error" key: the thrown value reads
\* response.error.code and response.error.message
castResponse(body) ==
  IF body.isError
  THEN [state |-> "threw",
        value |-> ErrorValue("object", Undefined, Undefined,
                             <<ErrorName(ErrorField(body)), Undefined, Undefined>>,
                             NoPayload)]
  ELSE [state |-> "returned", value |-> body]

\* getUserInfo() after its await of fetchData: part_000 casts the body, the
\* other classes return it as it is; a rejection is thrown on
getUserInfo ==
  /\ opOutcome.state = "none"
  /\ promise.state \in {"resolved", "rejected"}
  /\ opOutcome' = IF promise.state = "rejected"
                  THEN [state |-> "threw", value |-> promise.value]
                  ELSE IF cls = "part_000" THEN castResponse(promise.value)
                  ELSE [state |-> "returned", value |-> promise.value]
  /\ UNCHANGED <<cls, objects, instance, refs, lastSet, http, promise,
                 callVars, callerVars>>

InitHandler ==
  /\ total = 0
  /\ op = "none"
  /\ hasLimit = FALSE
  /\ limit = 0
  /\ pc = "idle"
  /\ requests = <<>>
  /\ awaiting = <<>>
  /\ tracks = <<>>
  /\ i = 0
  /\ totalPages = 0
  /\ currentPage = 0
  /\ result = <<>>
  /\ faults = 0
  /\ nowplaying = "unread"
  /\ order = <<>>
  /\ tracing = FALSE
  /\ history = {}
  /\ calls = 0
  /\ passed = {}
  /\ other = IdleLocals
  /\ \E c \in Classes : HandlerIdle(c)

NextHandler ==
  \/ \E u \in Usernames \cup {NoArg} : getInstance(u)
  \/ \E k \in 1..MaxRefs : \E u \in Usernames : setUsername(k, u)
  \/ fetchData
  \/ \E h \in HttpOutcomes : HttpCompletes(h)
  \/ axiosThen
  \/ axiosCatch
  \/ getUserInfo

SpecHandler == InitHandler /\ [][NextHandler]_vars

\* ------------------------------------------------------------------ properties
Returned == pc = "done"
Paged == op \in PagedOps
Loved == op = "getUserLovedTracks"
AllRequests == [k \in 1..Len(requests) |-> k]
\* the first n tracks of the upstream listing
Upstream(n) == Run(1, n)
\* the pages a caller limit l spans
PagesOf(l) == Max(1, Ceil(l, API_MAX_LIMIT))

\* C1: a paged operation called with a limit L, 1 <= L <= total, returns
\* exactly L tracks.
C1_ExactlyLimit ==
  (Returned /\ Paged /\ hasLimit /\ 1 <= limit /\ limit <= total)
    => Length(result) = limit

C1_Witness ==
  /\ Returned /\ op = "getUserTopTracks" /\ hasLimit
  /\ limit = CHUNK_SIZE + API_MAX_LIMIT + 1 /\ limit <= total
  /\ Len(requests) = 7 /\ Length(tracks) > limit

\* C2: a paged operation called with a limit L greater than the upstream total
\* returns exactly total tracks.
C2_ExactlyTotal ==
  (Returned /\ Paged /\ hasLimit /\ limit > total) => Length(result) = total

C2_Witness ==
  /\ Returned /\ op = "getUserRecentTracks" /\ hasLimit
  /\ limit = 3 * API_MAX_LIMIT + 200 /\ total = API_MAX_LIMIT + 500
  /\ Len(requests) = 4 /\ Length(result) = total

\* C3: a paged operation called without a limit returns all the tracks of the
\* upstream, however many there are.
C3_NoLimitFetchesAll ==
  (Returned /\ Paged /\ ~hasLimit) => Length(result) = total

\* C4: the sequence a paged operation returns is the tracks of the requested
\* pages in request order cut to the target length, and its k-th track is the
\* k-th track of the upstream listing: nothing twice, nothing skipped.
C4_PageOrdered ==
  (Returned /\ Paged) =>
    /\ result = Slice(flatMapTracks(requests, AllRequests, total),
                      getGoodPassedLimit(hasLimit, limit).goodPassedLimit)
    /\ Canon(result) = Upstream(Length(result))

C4_Witness ==
  /\ Returned /\ op = "getAllUserRecentTracks" /\ hasLimit
  /\ limit = CHUNK_SIZE + API_MAX_LIMIT + 200 /\ total > limit
  /\ Len(requests) = 7
  /\ At(result, limit) = limit /\ At(result, API_MAX_LIMIT + 1) = API_MAX_LIMIT + 1

\* C5: a paged operation called with a limit L >= 1 requests the pages
\* 1, 2, ..., max(1, ceil(L / 1000)) in that order, each once; call j of chunk i
\* requests page i * 5 + j + 2.
C5_PagesContiguous ==
  (Paged /\ hasLimit /\ limit >= 1) =>
    /\ \A k \in DOMAIN requests : requests[k].page = k
    /\ Len(requests) <= PagesOf(limit)
    /\ Returned => Len(requests) = PagesOf(limit)
    /\ pc = "batch" =>
         \A k \in DOMAIN awaiting : requests[awaiting[k]].page = i * 5 + (k - 1) + 2

C5_Witness ==
  /\ Returned /\ Paged /\ hasLimit /\ limit = CHUNK_SIZE + API_MAX_LIMIT + 500
  /\ Len(requests) = 7 /\ requests[7].page = 7 /\ i = 1

\* C6: getUserLovedTracks called without a limit fetches all the loved tracks:
\* it requests no more pages than the upstream has and returns the total tracks.
C6_LovedNoLimitFetchesAll ==
  (Loved /\ ~hasLimit) =>
    /\ Len(requests) <= Max(1, Ceil(total, API_MAX_LIMIT))
    /\ Returned => Canon(result) = Upstream(total)

\* C7: getUserLovedTracks requests the pages 1, 2, 3, ... in that order, none of
\* them twice, so its merged tracks hold no loved track twice.
C7_LovedPagesContiguous ==
  Loved =>
    /\ \A k \in DOMAIN requests : requests[k].page = k
    /\ \A a, b \in DOMAIN tracks : a < b => tracks[a].hi < tracks[b].lo

\* C8: getUserLovedTracks called with a limit L >= 1 returns exactly
\* min(L, total) tracks.
C8_LovedExactlyMin ==
  (Returned /\ Loved /\ hasLimit /\ limit >= 1)
    => Length(result) = Min(limit, total)

\* C9: a call with a fetch that failed, by a transport failure or by a response
\* that fails its schema, never returns a sequence.
C9_FailurePropagates ==
  (\E k \in DOMAIN requests : requests[k].status \in {"invalid", "error"})
    => (~Returned /\ result = <<>>)

C9_Witness ==
  /\ pc = "failed" /\ Paged /\ Len(requests) = 6 /\ Length(tracks) = API_MAX_LIMIT
  /\ requests[1].status = "ok" /\ requests[4].status = "invalid"
  /\ \A k \in DOMAIN requests : requests[k].status # "pending"

\* C10: a fetch-all operation called with the limit 0 issues no request and
\* returns the empty sequence.
C10_ZeroLimitShortCircuits ==
  (op # "none" /\ hasLimit /\ limit = 0)
    => (requests = <<>> /\ Returned /\ result = <<>>)

\* C11 (as amended): a fetch-all operation called with a negative limit fails
\* on the validation of its options before any request is issued; it returns
\* no sequence.
C11_NegativeLimitRejected ==
  (op \in Ops /\ hasLimit /\ limit < 0)
    => (pc = "failed" /\ requests = <<>> /\ result = <<>>)

C11_Witness ==
  /\ op = "getUserLovedTracks" /\ hasLimit /\ limit = -1
  /\ pc = "failed" /\ requests = <<>>

\* C11 (as stated): a fetch-all operation called with a negative limit issues
\* no request and returns the empty sequence.
C11_NegativeLimitShortCircuits ==
  (op \in Ops /\ hasLimit /\ limit < 0)
    => (requests = <<>> /\ Returned /\ result = <<>>)

\* the tracks the response to request k carries
Fetched(k) == PageResponse(requests[k].page, requests[k].limit, total).track

\* C14 (as amended): a paged operation called with limit 1200 issues exactly two
\* requests, page 1 and then page 2 in one batch of one call, each with the
\* per-page limit 1000; page 2 delivers up to 1000 tracks, of which the first
\* 200 are kept.
C14_PageOffsetLaw ==
  (Paged /\ hasLimit /\ limit = API_MAX_LIMIT + 200) =>
    /\ Len(requests) <= 2
    /\ \A k \in DOMAIN requests : requests[k].page = k /\ requests[k].limit = API_MAX_LIMIT
    /\ pc = "batch" => (i = 0 /\ awaiting = <<2>>)
    /\ Returned =>
         /\ Len(requests) = 2 /\ i = 0
         /\ Length(Fetched(2)) = Max(0, Min(API_MAX_LIMIT, total - API_MAX_LIMIT))
         /\ total >= limit =>
              /\ Length(result) = limit
              /\ At(result, API_MAX_LIMIT) = At(Fetched(1), API_MAX_LIMIT)
              /\ At(result, limit) = At(Fetched(2), 200)

C14_Witness ==
  /\ Returned /\ op = "getUserRecentTracks" /\ hasLimit
  /\ limit = API_MAX_LIMIT + 200 /\ total = API_MAX_LIMIT + 500
  /\ Len(requests) = 2 /\ Length(Fetched(2)) = 500 /\ Length(result) = limit

\* C14 (as stated): with limit 1200 and at least 1200 tracks upstream, exactly
\* two requests are issued, page 1 carrying 1000 tracks and page 2 carrying 200.
C14_SecondPageCarries200 ==
  (Returned /\ Paged /\ hasLimit /\ limit = API_MAX_LIMIT + 200 /\ total >= limit) =>
    /\ Len(requests) = 2
    /\ requests[1].page = 1 /\ Length(Fetched(1)) = API_MAX_LIMIT
    /\ requests[2].page = 2 /\ Length(Fetched(2)) = 200

\* C15: when the tracks needed beyond the first page number N, 1 <= N <= 5000,
\* a paged operation issues exactly ceil(N / 1000) further requests, all of them
\* in the one batch of chunk 0 and all of them before any of them is answered.
C15_SingleBatch ==
  (Paged /\ hasLimit /\ limit > API_MAX_LIMIT /\ limit - API_MAX_LIMIT <= CHUNK_SIZE) =>
    LET n == Ceil(limit - API_MAX_LIMIT, API_MAX_LIMIT)
    IN /\ Len(requests) \in {1, 1 + n}
       /\ i = 0
       /\ pc = "batch" => awaiting = [k \in 1..n |-> 1 + k]
       /\ Returned => Len(requests) = 1 + n

C15_Witness ==
  /\ pc = "batch" /\ op = "getUserRecentTracks" /\ hasLimit
  /\ limit = CHUNK_SIZE + 500 /\ Len(awaiting) = 5 /\ Len(requests) = 6
  /\ \A k \in DOMAIN awaiting : requests[awaiting[k]].status = "pending"

\* the requests of the call that are not answered yet
InFlight == {k \in DOMAIN requests : requests[k].status = "pending"}

\* C16: at every moment at most CHUNK_SIZE / API_MAX_LIMIT = 5 requests of a
\* call are in flight.
C16_BoundedFanOut == Cardinality(InFlight) <= CHUNK_SIZE \div API_MAX_LIMIT

C16_Witness ==
  /\ Cardinality(InFlight) = 5 /\ op = "getUserTopTracks"
  /\ limit > CHUNK_SIZE + API_MAX_LIMIT /\ pc = "batch" /\ i = 0

\* C12: getCurrentlyPlayingTrack returns the most recent track when it carries
\* the now-playing marker and null otherwise, and it throws for no response that
\* passes the schema, the one with an empty track list included.
C12_NowPlayingOrNull ==
  op = "getCurrentlyPlayingTrack" =>
    /\ pc = "failed" => \E k \in DOMAIN requests : requests[k].status \in {"invalid", "error"}
    /\ Returned => result = (IF nowplaying = "true" THEN Upstream(1) ELSE <<>>)

\* C13: two calls of the same fetch-all operation with the same parameters
\* return the same sequence, whatever the order in which the responses of either
\* call arrived and whatever calls were made before.
C13_Idempotent ==
  /\ \A a, b \in history :
       (a.op = b.op /\ a.hasLimit = b.hasLimit /\ a.limit = b.limit)
         => a.result = b.result
  /\ Returned =>
       \A a \in history :
         (a.op = op /\ a.hasLimit = hasLimit /\ a.limit = limit) => a.result = result

C13_Witness ==
  /\ Returned /\ calls = 1 /\ op = "getUserRecentTracks" /\ hasLimit
  /\ limit = CHUNK_SIZE + API_MAX_LIMIT + 200 /\ total > limit
  /\ [op |-> op, hasLimit |-> TRUE, limit |-> limit, result |-> result] \in history
  /\ order = <<1, 6, 5, 4, 3, 2, 7>>

\* C19: after any sequence of getInstance calls there is exactly one handler
\* object, every call returned it, and baseURL and endURL read through any two
\* references are equal
C19_OneSharedInstance ==
  refs # <<>> =>
    /\ Len(objects) = 1
    /\ \A k \in DOMAIN refs : refs[k] = instance
    /\ \A j, k \in DOMAIN refs :
         /\ objects[refs[j]].baseURL = objects[refs[k]].baseURL
         /\ objects[refs[j]].endURL = objects[refs[k]].endURL

\* getInstance was called MaxRefs times, with and without a username
C19_Witness ==
  /\ Len(refs) = MaxRefs
  /\ Len(objects) = 1
  /\ cls = "part_000"
  /\ lastSet = "test1"

\* C20: getUsername returns the same value through every reference, and once
\* setUsername was called that value is the argument of its most recent call
C20_UsernameShared ==
  \A j, k \in DOMAIN refs :
    /\ getUsername(refs[j]) = getUsername(refs[k])
    /\ lastSet # "none" => getUsername(refs[k]) = lastSet

\* several references obtained and a username set in a class whose getInstance
\* never sets one
C20_Witness ==
  /\ Len(refs) >= 2
  /\ cls = "LasfFM_handler.ts"
  /\ lastSet = "test1"
  /\ getUsername(refs[1]) = "test1"
  /\ getUsername(refs[2]) = "test1"

\* the error value v carries the JavaScript value x: as its error, as its code
\* or inside its message
Carries(v, x) ==
  \/ v.error = x
  \/ v.code = x
  \/ \E n \in DOMAIN v.message : v.message[n] = x

\* C17: when the service answered with an error payload (code c, message m),
\* with a non-2xx status or inside a 2xx body, the operation fails with an
\* error value that carries c and m
C17_ErrorCarriesCodeAndMessage ==
  (/\ cls = "part_000"
   /\ http.state \in {"success", "failed"}
   /\ http.hasResponse
   /\ http.data.isError
   /\ opOutcome.state # "none")
  => /\ opOutcome.state = "threw"
     /\ Carries(opOutcome.value, ErrorField(http.data))
     /\ Carries(opOutcome.value, MessageField(http.data))

\* C18: once the request has ended and its callback has run, the promise
\* returned by fetchData is settled, and rejected when the request failed
C18_FailuresReported ==
  (/\ http.state \in {"success", "failed"}
   /\ http.handled)
  => /\ promise.state # "pending"
     /\ http.state = "failed" => promise.state = "rejected"
     /\ http.state = "success" => promise.state = "resolved"

\* the classes whose getInstance takes a username
ExposesUsername == Classes \ {"LasfFM_handler.js"}

\* C21: in every class whose getInstance takes a username, getInstance(u) with a
\* non-empty u returns the shared instance bound to user u, whatever calls came
\* before: the username its requests are made for is u
C21_GetInstanceBinds ==
  [][\A u \in Usernames \ {""} :
       (cls \in ExposesUsername /\ getInstance(u)) => getUsername(instance)' = u]_vars

\* C22: the first request of a paged call is answered before any chunk request
\* is issued, and the requests of chunk i + 1 are issued only when every request
\* of chunk i is answered: whenever the call issues requests, none of the
\* requests it issued before is still in flight
C22_ChunksSequential ==
  [][(Paged /\ Len(requests') > Len(requests)) =>
       /\ \A k \in DOMAIN requests : requests[k].status = "ok"
       /\ \A k \in DOMAIN requests' : k > Len(requests) => requests'[k].status = "pending"
       /\ i' = IF Len(requests) = 1 THEN 0 ELSE i + 1]_vars

\* the one request of chunk 1 is in flight after the five of chunk 0 were answered
C22_Witness ==
  /\ pc = "batch" /\ op = "getUserRecentTracks" /\ i = 1
  /\ Len(requests) = 7 /\ awaiting = <<7>>
  /\ requests[7].status = "pending"
  /\ \A k \in 1..6 : requests[k].status = "ok"

\* C23: a batch settles only when every one of its requests completed or
\* failed: the call is never reported failed while one of its requests is still
\* in flight
C23_BatchWaitsForAll ==
  (Paged /\ pc = "failed") => InFlight = {}

RECURSIVE InIssueOrder(_, _, _)
\* the tracks of the first n requests of the call, in the order of their issue
InIssueOrder(reqs, n, T) ==
  IF n = 0 THEN <<>>
  ELSE InIssueOrder(reqs, n - 1, T) \o PageResponse(reqs[n].page, reqs[n].limit, T).track

\* C24: whatever the order in which the responses of a batch arrive, the tracks
\* of the batch are merged in the order its requests were issued, page number
\* ascending
C24_MergedInIssueOrder ==
  Paged =>
    /\ pc = "batch" => tracks = InIssueOrder(requests, Len(requests) - Len(awaiting), total)
    /\ Returned =>
         /\ tracks = InIssueOrder(requests, Len(requests), total)
         /\ \A a, b \in DOMAIN tracks : a < b => tracks[a].hi < tracks[b].lo

\* the five responses of chunk 0 arrived last page first
C24_Witness ==
  /\ Returned /\ op = "getUserTopTracks" /\ hasLimit
  /\ limit = CHUNK_SIZE + API_MAX_LIMIT + 200 /\ total > limit
  /\ order = <<1, 6, 5, 4, 3, 2, 7>>
  /\ Len(tracks) = 7

\* min(requestedLimit ?? trueTotal, trueTotal)
EffectiveTarget == Min(IF hasLimit THEN limit ELSE total, total)

\* C25: the plan of a paged call is bounded by the total learned from the first
\* response: with effective target E it is the first request and the requests
\* for the E - 1000 remaining tracks in ceil((E - 1000) / 5000) chunks, so no
\* page beyond ceil(total / 1000) is requested
C25_PlanBoundedByTotal ==
  (Paged /\ (hasLimit => limit >= 1)) =>
    /\ \A k \in DOMAIN requests :
         requests[k].page <= Max(1, Ceil(total, API_MAX_LIMIT))
    /\ pc = "batch" => i < Ceil(EffectiveTarget - API_MAX_LIMIT, CHUNK_SIZE)
    /\ Returned =>
         Len(requests) = 1 + Ceil(Max(0, EffectiveTarget - API_MAX_LIMIT), API_MAX_LIMIT)

\* C26: every request of a fetch-all operation called with a limit L >= 1 asks
\* for a per-page limit between 1 and API_MAX_LIMIT, and the first request asks
\* for min(L, API_MAX_LIMIT) items on page 1
C26_PerPageLimitCapped ==
  (op \in Ops /\ hasLimit /\ limit >= 1) =>
    /\ \A k \in DOMAIN requests :
         1 <= requests[k].limit /\ requests[k].limit <= API_MAX_LIMIT
    /\ requests # <<>> =>
         /\ requests[1].limit = Min(limit, API_MAX_LIMIT)
         /\ requests[1].page = 1

\* the requests of the call whose fetch failed or whose response failed its schema
Failed == {k \in DOMAIN requests : requests[k].status \in {"error", "invalid"}}

\* C27: once a fetch of a call has failed, by its transport or by the schema of
\* its response, the call issues no request any more: no page is requested
\* again and no request of a later chunk is issued
C27_NoRetry ==
  [][(op \in Ops /\ Failed # {}) =>
       /\ Len(requests') = Len(requests)
       /\ \A k \in DOMAIN requests : requests'[k].page = requests[k].page
       /\ i' = i]_vars

\* a response of chunk 0 failed its schema, every response of the chunk has
\* arrived, and the call has failed without a request of chunk 1
C27_Witness ==
  /\ pc = "failed" /\ op = "getUserRecentTracks" /\ hasLimit
  /\ limit > CHUNK_SIZE + API_MAX_LIMIT
  /\ Len(requests) = 6 /\ i = 0
  /\ requests[3].status = "invalid"
  /\ InFlight = {}

\* ------------------------------------------------- a caller that passes filters
InitFilters ==
  /\ total \in RepeatTotals
  /\ op = "none"
  /\ hasLimit = FALSE
  /\ limit = 0
  /\ pc = "idle"
  /\ requests = <<>>
  /\ awaiting = <<>>
  /\ tracks = <<>>
  /\ i = 0
  /\ totalPages = 0
  /\ currentPage = 0
  /\ result = <<>>
  /\ faults = 0
  /\ nowplaying = "unread"
  /\ order = <<>>
  /\ tracing = FALSE
  /\ history = {}
  /\ calls = 0
  /\ passed \in SUBSET FilterNames
  /\ other = IdleLocals
  /\ HandlerIdle("LastFMHandler.ts")

NextFilters ==
  \/ \E has \in BOOLEAN : \E l \in (IF has THEN RepeatLimits ELSE {0}) :
       passed \subseteq acceptedFilters("getUserRecentTracks") /\ getUserRecentTracks(has, l)
  \/ \E has \in BOOLEAN : \E l \in (IF has THEN RepeatLimits ELSE {0}) :
       passed \subseteq acceptedFilters("getAllUserRecentTracks") /\ getAllUserRecentTracks(has, l)
  \/ \E has \in BOOLEAN : \E l \in (IF has THEN RepeatLimits ELSE {0}) :
       passed \subseteq acceptedFilters("getUserTopTracks") /\ getUserTopTracks(has, l)
  \/ \E k \in DOMAIN requests : \E outcome \in Outcomes :
       Respond(k, outcome)
  \/ Throw
  \/ PagedFirst
  \/ PagedBatch

SpecFilters == InitFilters /\ [][NextFilters]_vars

\* C28: every request of a call carries the method-specific filters the caller
\* passed: the requests for the pages 2 and up carry the filters of the first
\* request
C28_FiltersOnEveryRequest ==
  Paged => \A k \in DOMAIN requests : requests[k].filters = passed

\* ------------------------------------------ two calls running on one handler
\* the limits of the calls that run concurrently
ConcurrentLimits == {API_MAX_LIMIT + 200, 2 * API_MAX_LIMIT + 200}

\* the user the shared handler was constructed for
SharedHandler == construct("LastFMHandler.ts", "tom_planche")

\* an accumulator kept on the handler: the resumed call finds the tracks the
\* other call left
Resumed_sharedTracks(saved, left) == [saved EXCEPT !.tracks = left.tracks]

\* the locals a call finds when it is resumed are those it was suspended with
Resumed(saved, left) == saved

\* the event loop turns to the other call: the running call is suspended at an
\* await that has not settled (or is not made yet, or over), so none of its
\* continuations is due
EventLoopTurn ==
  /\ Suspended
  /\ LET found == Resumed(other, Locals)
     IN /\ op' = found.op
        /\ hasLimit' = found.hasLimit
        /\ limit' = found.limit
        /\ pc' = found.pc
        /\ requests' = found.requests
        /\ awaiting' = found.awaiting
        /\ tracks' = found.tracks
        /\ i' = found.i
        /\ totalPages' = found.totalPages
        /\ currentPage' = found.currentPage
        /\ result' = found.result
        /\ nowplaying' = found.nowplaying
  /\ other' = Locals
  /\ UNCHANGED <<total, faults, order, history, calls, tracing, passed, handlerVars>>

InitConcurrent ==
  /\ total \in RepeatTotals
  /\ op = "none"
  /\ hasLimit = FALSE
  /\ limit = 0
  /\ pc = "idle"
  /\ requests = <<>>
  /\ awaiting = <<>>
  /\ tracks = <<>>
  /\ i = 0
  /\ totalPages = 0
  /\ currentPage = 0
  /\ result = <<>>
  /\ faults = 0
  /\ nowplaying = "unread"
  /\ order = <<>>
  /\ tracing = TRUE
  /\ history = {}
  /\ calls = 0
  /\ passed = {}
  /\ other = IdleLocals
  /\ cls = "LastFMHandler.ts"
  /\ objects = <<SharedHandler>>
  /\ instance = 1
  /\ refs = <<1, 1>>
  /\ lastSet = "none"
  /\ http = [state |-> "none"]
  /\ promise = [state |-> "none"]
  /\ opOutcome = [state |-> "none"]

NextConcurrent ==
  \/ \E has \in BOOLEAN : \E l \in (IF has THEN ConcurrentLimits ELSE {0}) :
       getUserRecentTracks(has, l)
  \/ \E has \in BOOLEAN : \E l \in (IF has THEN ConcurrentLimits ELSE {0}) :
       getAllUserRecentTracks(has, l)
  \/ \E has \in BOOLEAN : \E l \in (IF has THEN ConcurrentLimits ELSE {0}) :
       getUserTopTracks(has, l)
  \/ \E has \in BOOLEAN : \E l \in (IF has THEN ConcurrentLimits ELSE {0}) :
       getUserLovedTracks(has, l)
  \/ \E k \in DOMAIN requests : \E outcome \in Outcomes :
       Respond(k, outcome)
  \/ Throw
  \/ PagedFirst
  \/ PagedBatch
  \/ LovedFirst
  \/ LovedNext
  \/ EventLoopTurn

SpecConcurrent == InitConcurrent /\ [][NextConcurrent]_vars

RECURSIVE AlonePages(_, _, _)
\* the tracks of the pages p .. n, each asked with API_MAX_LIMIT
AlonePages(p, n, T) ==
  IF p > n THEN <<>>
  ELSE PageResponse(p, API_MAX_LIMIT, T).track \o AlonePages(p + 1, n, T)

\* what a paged operation called with (has, l) returns when it runs alone
PagedAlone(has, l, T) ==
  LET gl == getGoodPassedLimit(has, l)
      n == 1 + Ceil(gl.goodPassedLimit - gl.finalLimit, API_MAX_LIMIT)
  IN Slice(PageResponse(baseOptions.page, gl.finalLimit, T).track \o AlonePages(2, n, T),
           gl.goodPassedLimit)

RECURSIVE LovedAloneLoop(_, _, _, _, _, _)
\* the while loop of getUserLovedTracks run alone, for at most `fuel` iterations
LovedAloneLoop(t, has, l, pages, T, fuel) ==
  IF fuel = 0 \/ ~(baseOptions.page < pages /\ (IF has /\ l # 0 THEN Length(t) < l ELSE TRUE))
  THEN t
  ELSE LovedAloneLoop(Push(t, PageResponse(baseOptions.page + 1, LovedFinalLimit(has, l), T).track),
                      has, l, pages, T, fuel - 1)

\* what getUserLovedTracks called with (has, l) returns when it runs alone
LovedAlone(has, l, T) ==
  LET first == PageResponse(baseOptions.page, LovedFirstLimit(has, l), T)
  IN LovedAloneLoop(first.track, has, l, first.attr.totalPages, T, MaxLoop + 1)

\* what operation o called with (has, l) returns when it runs alone
RunAlone(o, has, l, T) ==
  IF o \in PagedOps THEN PagedAlone(has, l, T) ELSE LovedAlone(has, l, T)

\* C29: two fetch-all calls running concurrently on the shared handler do not
\* interfere: under every interleaving of their requests and responses each
\* call returns the sequence it returns when run alone, and the handler's
\* baseOptions and username are as they were
C29_NoInterference ==
  /\ (Returned /\ op \in Ops) => result = RunAlone(op, hasLimit, limit, total)
  /\ (other.pc = "done" /\ other.op \in Ops) =>
       other.result = RunAlone(other.op, other.hasLimit, other.limit, total)
  /\ baseOptions = [limit |-> 1000, page |-> 1]
  /\ objects = <<SharedHandler>>

\* both calls returned, and their responses arrived alternately: the first
\* pages of both, then pages 3 and 2 of one call between those of the other
C29_Witness ==
  /\ Returned /\ op = "getUserRecentTracks" /\ hasLimit
  /\ limit = 2 * API_MAX_LIMIT + 200 /\ Len(requests) = 3
  /\ other.pc = "done" /\ other.op = "getUserTopTracks" /\ other.hasLimit
  /\ other.limit = 2 * API_MAX_LIMIT + 200 /\ Len(other.requests) = 3
  /\ order = <<1, 1, 3, 2, 2, 3>>
  /\ total > limit

====
